---- MODULE Spec2Model ----
(***************************************************************************)
(* Stepper motor controller (src/main.c): the command loop of main, the    *)
(* calibration loop of calibrate, the stepping loop of run_motor and the   *)
(* command-line validation, as one state machine.                          *)
(*                                                                         *)
(* A command line is a sequence of one-character strings (the C string     *)
(* without its terminating NUL).  The optical sensor is the environment:   *)
(* every calib command draws a sensor behaviour from SensorScripts, and    *)
(* gpio_get(SENSOR) reads that behaviour at the current half-step.         *)
(***************************************************************************)
EXTENDS Integers, Sequences, FiniteSets, TLC

(***************************************************************************)
(* Program constants                                                       *)
(***************************************************************************)
\* main: int steps_per_rev = 4096
DEFAULT_STEPS_PER_REV == 4096

\* main: const int safe_max = 20480
safe_max == 20480

\* The largest and the smallest value of a 32-bit int.
INT_MAX == 2147483647

INT_MIN == -INT_MAX - 1

half_step ==
    << <<1, 0, 0, 0>>,
       <<1, 1, 0, 0>>,
       <<0, 1, 0, 0>>,
       <<0, 1, 1, 0>>,
       <<0, 0, 1, 0>>,
       <<0, 0, 1, 1>>,
       <<0, 0, 0, 1>>,
       <<1, 0, 0, 1>> >>

(***************************************************************************)
(* Bounds of the exploration                                               *)
(***************************************************************************)
\* A session holds at most this many calibrations whose sensor behaviour keeps
\* the motor stepping up to the ceiling (LongScripts).
MaxLongCalibs == 1

\* Longest text after "run" generated from ArgAlphabet.
MaxArgLen == 2

(***************************************************************************)
(* C helpers                                                               *)
(***************************************************************************)
\* int / int for a positive divisor: truncation toward zero.
CDiv(a, b) == IF a >= 0 THEN a \div b ELSE -((-a) \div b)

\* int + int, wrapping in two's complement (no intermediate leaves 32 bits).
AddInt(x, y) ==
    IF x > 0 /\ y > 0 /\ x > INT_MAX - y
    THEN (x - INT_MAX - 1) + (y - INT_MAX - 1)
    ELSE IF x < 0 /\ y < 0 /\ x < INT_MIN - y
         THEN (x + INT_MAX + 1) + (y + INT_MAX + 1)
         ELSE x + y

\* int * int for a multiplier b >= 0, wrapping in two's complement.
RECURSIVE MulInt(_, _)
MulInt(a, b) ==
    IF b = 0 THEN 0
    ELSE LET h == MulInt(a, b \div 2)
             d == AddInt(h, h)
         IN  IF b % 2 = 1 THEN AddInt(d, a) ELSE d

\* Bit k of a two's-complement int.
Bit(n, k) == (n \div (2 ^ k)) % 2

\* Faulty variant: the mask keeps two bits only.
BitAnd3(n) == Bit(n, 0) + 2 * Bit(n, 1)

\* step & 7: the three lowest bits, each kept where the mask has a 1.
BitAnd7(n) == Bit(n, 0) + 2 * Bit(n, 1) + 4 * Bit(n, 2)

Digits == {"0", "1", "2", "3", "4", "5", "6", "7", "8", "9"}

isdigit(c) == c \in Digits

DigitValue(c) ==
    CASE c = "0" -> 0 [] c = "1" -> 1 [] c = "2" -> 2 [] c = "3" -> 3
      [] c = "4" -> 4 [] c = "5" -> 5 [] c = "6" -> 6 [] c = "7" -> 7
      [] c = "8" -> 8 [] c = "9" -> 9

\* The C string s + n: the text from (0-based) offset n on.
StrFrom(s, n) == SubSeq(s, n + 1, Len(s))

\* s[k] for a 0-based k; the terminating NUL reads as the empty string.
CharAt(s, k) == IF k < Len(s) THEN s[k + 1] ELSE ""

strlen(s) == Len(s)

\* The number of coil pins step_motor writes.
INS_SIZE == 4

\* strncmp(s, "run", 3) == 0
HasRunPrefix(s) == Len(s) >= 3 /\ SubSeq(s, 1, 3) = <<"r", "u", "n">>

\* atoi of a string of digits, accumulated left to right.
RECURSIVE atoi_acc(_, _)
atoi_acc(s, acc) ==
    IF s = <<>> THEN acc
    ELSE atoi_acc(Tail(s), acc * 10 + DigitValue(Head(s)))

atoi(s) == atoi_acc(s, 0)

check_if_nums(s) == \A k \in 1..Len(s) : isdigit(s[k])

\* The digits of s, in order (the loop filling num_char).
OnlyDigits(s) == SelectSeq(s, isdigit)

\* Faulty variant: the leading-zero test is missing.
get_nums_leading_zero_accepted(s) ==
    IF Len(OnlyDigits(s)) > 0 THEN atoi(OnlyDigits(s)) ELSE 0

get_nums_from_a_string(s) ==
    IF CharAt(s, 0) # "0"
    THEN IF Len(OnlyDigits(s)) > 0 THEN atoi(OnlyDigits(s)) ELSE 0
    ELSE 0

\* Faulty variant: the separating space is not checked.
validate_run_input_no_space(s) ==
    strlen(s) >= 4 /\ check_if_nums(StrFrom(s, 4))

validate_run_input(s) ==
    strlen(s) >= 4 /\ check_if_nums(StrFrom(s, 4)) /\ CharAt(s, 3) = " "

\* Faulty variant: the average is rounded up.
get_avg_rounded_up(rs) == CDiv(rs[1] + rs[2] + rs[3] + 2, 3)

get_avg(rs) == CDiv(rs[1] + rs[2] + rs[3], 3)

\* Faulty variant: multiplies before dividing.
RunStepsMulFirst(cnt, spr) == CDiv(MulInt(cnt, spr), 8)

\* i_count of run_motor.
RunSteps(cnt, spr) == MulInt(cnt, CDiv(spr, 8))

\* Faulty variant: full-stepping, every second row of the table.
step_motor_full_step(st) == half_step[BitAnd7(2 * st) + 1]

\* Faulty variant: the first half-step of a call starts one row further on.
step_motor_from_row_1(st) == half_step[BitAnd7(st + 1) + 1]

\* The row step_motor writes to the pins IN1..IN4.
step_motor(st) == half_step[BitAnd7(st) + 1]

(***************************************************************************)
(* Inputs                                                                  *)
(***************************************************************************)
ArgAlphabet == {" ", "0", "1", "-"}

RECURSIVE SeqsUpTo(_, _)
SeqsUpTo(S, n) ==
    IF n = 0 THEN {<<>>}
    ELSE LET shorter == SeqsUpTo(S, n - 1)
         IN  shorter \cup {Append(q, c) : q \in shorter, c \in S}

RunWord == <<"r", "u", "n">>

StatusLine == <<"s", "t", "a", "t", "u", "s">>

CalibLine == <<"c", "a", "l", "i", "b">>

\* "run" followed by every text over ArgAlphabet of at most MaxArgLen characters.
GeneratedRunLines == {RunWord \o a : a \in SeqsUpTo(ArgAlphabet, MaxArgLen)}

ExtraLines ==
    { RunWord \o <<"x">>,
      RunWord \o <<" ", "8">>,
      RunWord \o <<" ", "1", "2">>,
      RunWord \o <<" ", "0", "1", "2">>,
      RunWord \o <<" ", "1", " ", "2">>,
      RunWord \o <<" ", "-", "1">>,
      <<"r", "u">>,
      <<"s", "t", "a", "t", "u", "s", " ">>,
      <<"S", "t", "a", "t", "u", "s">>,
      <<"c", "a", "l", "i", "b", "x">>,
      <<"c", "a", "l">>,
      <<"x">> }

\* The non-empty trimmed lines handle_input may return.
Lines == ({StatusLine, CalibLine} \cup GeneratedRunLines \cup ExtraLines) \ {<<>>}

\* A sensor behaviour: the level read before the first half-step, the
\* iterations at which the beam becomes blocked, and for how many samples.
Script(init, starts, width) == [init |-> init, starts |-> starts, width |-> width]

\* Falling edges spaced s apart, the first one on iteration first.
FixedSpacing(first, s) == Script(TRUE, {first, first + s, first + 2 * s, first + 3 * s}, 1)

Spacings == {2, 8, 9}

\* A pulse that outlasts every calibration.
Forever == safe_max + 2

\* Behaviours with four falling edges early on: fixed spacings; a beam that
\* is blocked when calibrate starts, then gives intervals 10, 10, 11; wide
\* pulses with intervals 1200, 1210, 1205; and five pulses, the first of them
\* on the first iteration.
ShortScripts ==
    {FixedSpacing(3, s) : s \in Spacings}
    \cup { Script(FALSE, {1, 5, 15, 25, 36}, 2),
           Script(TRUE, {5, 1205, 2415, 3620}, 600),
           Script(TRUE, {1, 3, 5, 7, 9}, 1) }

\* Behaviours that keep calibrate stepping up to the ceiling: no transition
\* at all, one falling edge and then blocked for good, two or three falling
\* edges, and a fourth edge on the very iteration that passes the ceiling.
LongScripts ==
    { Script(TRUE, {}, 1),
      Script(TRUE, {4}, Forever),
      Script(TRUE, {4, 10}, 3),
      Script(TRUE, {4, 10, 17}, 1),
      Script(TRUE, {safe_max - 5, safe_max - 3, safe_max - 1, safe_max + 1}, 1) }

SensorScripts == ShortScripts \cup LongScripts

\* gpio_get(SENSOR) at half-step k of a calibration: true = beam clear.
gpio_get(s, k) ==
    IF k = 0 THEN s.init
    ELSE ~ \E e \in s.starts : e <= k /\ k < e + s.width

NoScript == Script(TRUE, {}, 1)

Msg(text, a, b) == [text |-> text, a |-> a, b |-> b]

VARIABLES
    pc,                \* "idle" (in handle_input), "calib", "run"
    line,              \* user_input: the line being, or last, dispatched
    steps_per_rev,     \* main: steps_per_rev
    avg,               \* main: avg
    revolution_steps,  \* main: revolution_steps[3]
    num_out,           \* main: num_out of the command (0 when it parses no number)
    coils,             \* the levels of the pins IN1..IN4
    pin,               \* step_motor: pins of the current call already written
    max,               \* calibrate: max
    count,             \* calibrate: count
    step,              \* calibrate: step
    edge_step,         \* calibrate: edge_step
    first_edge_found,  \* calibrate: first_edge_found
    continue_loop,     \* calibrate: continue_loop
    prev_state,        \* calibrate: prev_state
    i,                 \* run_motor: i
    i_count,           \* run_motor: i_count
    sensor,            \* environment: the sensor behaviour of the last calib command
    out,               \* history: the messages printed by the current command
    issued,            \* history: step_motor calls made by the current command
    lastSuccessAvg,    \* history: result of the last calibration that saw 4 edges
    succeeded,         \* history: some calibration has seen 4 edges
    longCalibs,        \* history: calibrations started with a script of LongScripts
    entry              \* history: main's state when the current command started

mainVars == <<steps_per_rev, avg, revolution_steps, num_out>>

calibVars == <<max, count, step, edge_step, first_edge_found, continue_loop, prev_state, sensor>>

runVars == <<i, i_count>>

histVars == <<out, issued, lastSuccessAvg, succeeded, longCalibs, entry>>

vars == <<pc, line, mainVars, coils, pin, calibVars, runVars, histVars>>

\* Faulty variant: the ceiling follows the current steps_per_rev.
CalibMaxScaled == 5 * steps_per_rev

\* main: the ceiling handed to calibrate.
CalibMax == safe_max

\* main's state as a command finds it.
Snapshot == [steps_per_rev |-> steps_per_rev, avg |-> avg,
             revolution_steps |-> revolution_steps]

\* Locals of a function that is not running.
CalibIdle ==
    /\ max = 0 /\ count = 0 /\ step = 0 /\ edge_step = 0
    /\ first_edge_found = FALSE /\ continue_loop = FALSE /\ prev_state = FALSE

RunIdle == i = 0 /\ i_count = 0

Init ==
    /\ pc = "idle"
    /\ line = <<>>
    /\ steps_per_rev = DEFAULT_STEPS_PER_REV
    /\ avg = 0
    /\ revolution_steps = <<0, 0, 0>>
    /\ num_out = 0
    /\ coils = <<0, 0, 0, 0>>
    /\ pin = 0
    /\ CalibIdle
    /\ sensor = NoScript
    /\ RunIdle
    /\ out = <<>>
    /\ issued = 0
    /\ lastSuccessAvg = DEFAULT_STEPS_PER_REV
    /\ succeeded = FALSE
    /\ longCalibs = 0
    /\ entry = Snapshot

\* handle_input returns l: the command starts.
Dispatch(l) ==
    /\ pc = "idle"
    /\ line' = l
    /\ issued' = 0
    /\ entry' = Snapshot

\* Faulty variant: the command word is compared as a prefix.
IsStatusPrefix(l) == Len(l) >= Len(StatusLine) /\ SubSeq(l, 1, Len(StatusLine)) = StatusLine

\* strcmp(user_input, "status") == 0
IsStatus(l) == l = StatusLine

\* strcmp(user_input, "calib") == 0
IsCalib(l) == l = CalibLine

\* status: print the system state.
Status ==
    /\ pc = "idle"
    /\ \E l \in Lines :
          /\ IsStatus(l)
          /\ Dispatch(l)
    /\ num_out' = 0
    /\ out' = IF avg > 0
              THEN <<Msg("Calibrated: yes", 0, 0), Msg("Steps per revolution", steps_per_rev, 0)>>
              ELSE <<Msg("Calibrated: no", 0, 0), Msg("Not available", 0, 0)>>
    /\ UNCHANGED <<pc, steps_per_rev, avg, revolution_steps, coils, pin, calibVars, runVars,
                   lastSuccessAvg, succeeded, longCalibs>>

\* calib: main calls calibrate, which reads the sensor once before stepping.
\* The sensor behaves as one of the scripts of S.
CalibStartFrom(S) ==
    /\ pc = "idle"
    /\ \E l \in Lines :
          /\ ~IsStatus(l)
          /\ IsCalib(l)
          /\ Dispatch(l)
    /\ \E s \in S :
          /\ s \in LongScripts => longCalibs < MaxLongCalibs
          /\ longCalibs' = IF s \in LongScripts THEN longCalibs + 1 ELSE longCalibs
          /\ sensor' = s
          /\ prev_state' = gpio_get(s, 0)
    /\ pc' = "calib"
    /\ max' = CalibMax
    /\ count' = 0
    /\ step' = 0
    /\ edge_step' = 0
    /\ first_edge_found' = FALSE
    /\ continue_loop' = TRUE
    /\ out' = <<>>
    /\ num_out' = 0
    /\ UNCHANGED <<steps_per_rev, avg, revolution_steps, coils, pin, runVars, lastSuccessAvg, succeeded>>

CalibStart == CalibStartFrom(SensorScripts)

\* Faulty variant: every change of the sample counts as an edge.
AnyEdge(prev, cur) == prev # cur

\* Whether this iteration's sample is a falling edge.
FallingEdge(prev, cur) == prev /\ ~cur

\* Faulty variant: the iteration of the closing edge is left out of the interval.
StoreIntervalExclusive(rs, cnt, es) == [rs EXCEPT ![cnt] = es - 1]

\* The slot an edge after the first one writes: revolution_steps[count-1].
StoreInterval(rs, cnt, es) == [rs EXCEPT ![cnt] = es]

\* Faulty variant: the loop of calibrate has no exit.
StopLoopNever(cnt, st, mx) == FALSE

\* Faulty variant: the ceiling test is off by one.
StopLoopOffByOne(cnt, st, mx) == cnt >= 4 \/ st >= mx

\* The loop test of calibrate: stop after 4 edges or past the ceiling.
StopLoop(cnt, st, mx) == cnt >= 4 \/ st > mx

\* One iteration of calibrate's do-while loop, after step_motor(step) has
\* written the pins.
CalibIterBody ==
    /\ pc = "calib"
    /\ continue_loop
    /\ issued' = issued + 1
    /\ step' = step + 1
    /\ LET es == IF first_edge_found THEN edge_step + 1 ELSE edge_step
           sensor_state == gpio_get(sensor, step + 1)
           edge == FallingEdge(prev_state, sensor_state)
       IN  /\ first_edge_found' = (first_edge_found \/ edge)
           /\ revolution_steps' = IF edge /\ first_edge_found
                                   THEN StoreInterval(revolution_steps, count, es)
                                   ELSE revolution_steps
           /\ out' = IF ~edge THEN out
                     ELSE IF ~first_edge_found
                          THEN Append(out, Msg("First low edge found", 0, 0))
                          ELSE Append(out, Msg("round steps", count, es))
           /\ edge_step' = IF edge /\ first_edge_found THEN 0 ELSE es
           /\ count' = IF edge THEN count + 1 ELSE count
           /\ prev_state' = sensor_state
    /\ continue_loop' = ~StopLoop(count', step', max)
    /\ UNCHANGED <<pc, line, steps_per_rev, avg, num_out, max, sensor, runVars,
                   lastSuccessAvg, succeeded, longCalibs, entry>>

\* One iteration of calibrate's loop, the four pin writes of step_motor taken
\* as one step.
CalibIter ==
    /\ pin = 0
    /\ coils' = step_motor(step)
    /\ UNCHANGED pin
    /\ CalibIterBody

\* Faulty variant: four edges are not yet enough.
CalibResultOffByOne(cnt, rs) == IF cnt > 4 THEN get_avg(rs) ELSE 0

\* The value calibrate returns.
CalibResult(cnt, rs) == IF cnt >= 4 THEN get_avg(rs) ELSE 0

\* Faulty variant: the result is stored without the avg > 0 test.
UpdatedStepsPerRevAlways(a, spr) == a

\* Faulty variant: the result is never stored.
UpdatedStepsPerRevNever(a, spr) == spr

\* main: steps_per_rev after avg = calibrate(...).
UpdatedStepsPerRev(a, spr) == IF a > 0 THEN a ELSE spr

\* calibrate returns and main stores and reports the result.
CalibReturn ==
    /\ pc = "calib"
    /\ ~continue_loop
    /\ LET r == CalibResult(count, revolution_steps)
       IN  /\ avg' = r
           /\ steps_per_rev' = UpdatedStepsPerRev(r, steps_per_rev)
           /\ out' = Append(out, IF r > 0 THEN Msg("Calibration completed", 0, 0)
                                          ELSE Msg("Calibration failed", 0, 0))
           /\ lastSuccessAvg' = IF count >= 4 THEN r ELSE lastSuccessAvg
    /\ succeeded' = (succeeded \/ count >= 4)
    /\ pc' = "idle"
    /\ max' = 0 /\ count' = 0 /\ step' = 0 /\ edge_step' = 0
    /\ first_edge_found' = FALSE /\ continue_loop' = FALSE /\ prev_state' = FALSE
    /\ UNCHANGED <<line, revolution_steps, num_out, coils, pin, sensor, runVars, issued,
                   longCalibs, entry>>

\* run_motor is entered with this count.
RunEnter(cnt) ==
    /\ pc' = "run"
    /\ i' = 0
    /\ i_count' = RunSteps(cnt, steps_per_rev)

\* "run N" with the line l: a validated argument; the motor runs only if N > 0.
RunNLine(l) ==
    /\ ~IsStatus(l) /\ ~IsCalib(l)
    /\ HasRunPrefix(l)
    /\ validate_run_input(l)
    /\ Dispatch(l)
    /\ num_out' = get_nums_from_a_string(StrFrom(l, 4))
    /\ out' = <<>>
    /\ IF num_out' > 0 THEN RunEnter(num_out') ELSE UNCHANGED <<pc, runVars>>
    /\ UNCHANGED <<steps_per_rev, avg, revolution_steps, coils, pin, calibVars,
                   lastSuccessAvg, succeeded, longCalibs>>

RunN ==
    /\ pc = "idle"
    /\ \E l \in Lines : RunNLine(l)

\* Plain "run": one full revolution, 8 eighths.
RunPlain ==
    /\ pc = "idle"
    /\ \E l \in Lines :
          /\ ~IsStatus(l) /\ ~IsCalib(l)
          /\ HasRunPrefix(l)
          /\ ~validate_run_input(l)
          /\ strlen(l) = 3
          /\ Dispatch(l)
    /\ out' = <<>>
    /\ num_out' = 0
    /\ RunEnter(8)
    /\ UNCHANGED <<steps_per_rev, avg, revolution_steps, coils, pin, calibVars,
                   lastSuccessAvg, succeeded, longCalibs>>

\* Every other line falls through the if-else chain: nothing is done.
Ignored ==
    /\ pc = "idle"
    /\ \E l \in Lines :
          /\ ~IsStatus(l) /\ ~IsCalib(l)
          /\ \/ ~HasRunPrefix(l)
             \/ (~validate_run_input(l) /\ strlen(l) # 3)
          /\ Dispatch(l)
    /\ out' = <<>>
    /\ num_out' = 0
    /\ UNCHANGED <<pc, steps_per_rev, avg, revolution_steps, coils, pin, calibVars, runVars,
                   lastSuccessAvg, succeeded, longCalibs>>

\* One iteration of run_motor's for loop, after step_motor(i) has written the
\* pins.
RunStepBody ==
    /\ pc = "run"
    /\ i < i_count
    /\ issued' = issued + 1
    /\ i' = i + 1
    /\ UNCHANGED <<pc, line, mainVars, calibVars, i_count, out, lastSuccessAvg, succeeded,
                   longCalibs, entry>>

\* One iteration of run_motor's loop, the four pin writes of step_motor taken
\* as one step.
RunStep ==
    /\ pin = 0
    /\ coils' = step_motor(i)
    /\ UNCHANGED pin
    /\ RunStepBody

\* run_motor returns to the command loop.
RunReturn ==
    /\ pc = "run"
    /\ ~(i < i_count)
    /\ pc' = "idle"
    /\ i' = 0 /\ i_count' = 0
    /\ UNCHANGED <<line, mainVars, coils, pin, calibVars, out, issued, lastSuccessAvg, succeeded,
                   longCalibs, entry>>

Next ==
    \/ Status
    \/ CalibStart
    \/ CalibIter
    \/ CalibReturn
    \/ RunN
    \/ RunPlain
    \/ Ignored
    \/ RunStep
    \/ RunReturn

Spec == Init /\ [][Next]_vars

\* "run N" lines whose product N * (steps_per_rev / 8) at the default 4096
\* is 512, 2^31 and 2^32 + 512.
LargeRunLines ==
    { RunWord \o <<" ", "1">>,
      RunWord \o <<" ", "4", "1", "9", "4", "3", "0", "4">>,
      RunWord \o <<" ", "8", "3", "8", "8", "6", "0", "9">> }

\* "run N" with a large argument.
RunLarge ==
    /\ pc = "idle"
    /\ \E l \in LargeRunLines : RunNLine(l)

NextLargeRun ==
    \/ RunLarge
    \/ RunStep
    \/ RunReturn

\* A session of run commands with large arguments, never calibrated.
LargeRunSpec == Init /\ [][NextLargeRun]_vars

\* The sensor behaviours of the pin-level sessions: edges 2, 8 and 9
\* half-steps apart, so that calibrations stop on different rows.
PinScripts == {FixedSpacing(3, s) : s \in Spacings} \cup {Script(TRUE, {1, 3, 5, 7, 9}, 1)}

CalibStartPins == CalibStartFrom(PinScripts)

\* step_motor: one gpio_put of its loop, pin number pin + 1 of the row.
StepMotorPin ==
    /\ \/ pc = "calib" /\ continue_loop
       \/ pc = "run" /\ i < i_count
    /\ pin < INS_SIZE
    /\ LET st == IF pc = "calib" THEN step ELSE i
       IN  coils' = [coils EXCEPT ![pin + 1] = step_motor(st)[pin + 1]]
    /\ pin' = pin + 1
    /\ UNCHANGED <<pc, line, mainVars, calibVars, runVars, histVars>>

\* The rest of calibrate's iteration once step_motor has written all pins.
CalibIterAfterPins ==
    /\ pin = INS_SIZE
    /\ pin' = 0
    /\ UNCHANGED coils
    /\ CalibIterBody

\* The rest of run_motor's iteration once step_motor has written all pins.
RunStepAfterPins ==
    /\ pin = INS_SIZE
    /\ pin' = 0
    /\ UNCHANGED coils
    /\ RunStepBody

NextPins ==
    \/ CalibStartPins
    \/ StepMotorPin
    \/ CalibIterAfterPins
    \/ CalibReturn
    \/ RunN
    \/ RunPlain
    \/ RunStepAfterPins
    \/ RunReturn

\* The program with every write to a coil pin as a step of its own.
PinSpec == Init /\ [][NextPins]_vars

\* The scheduling of the program: a loop that is running takes its next
\* iteration, and a function whose loop has ended returns.  Reading a line
\* waits for the user and carries no fairness.
FairSpec ==
    /\ Spec
    /\ WF_vars(CalibIter)
    /\ WF_vars(CalibReturn)
    /\ WF_vars(RunStep)
    /\ WF_vars(RunReturn)

(***************************************************************************)
(* What the properties below are stated with                               *)
(***************************************************************************)
Completed == Msg("Calibration completed", 0, 0)

Failed == Msg("Calibration failed", 0, 0)

LastMsg(o) == IF o = <<>> THEN Msg("", 0, 0) ELSE o[Len(o)]

\* The command of `line` has run to completion.
Done == pc = "idle"

RunLine(arg) == RunWord \o arg

\* The iterations (1-based) at which behaviour s shows a falling edge to a
\* loop that runs for at most mx + 1 iterations.
EdgeTimes(s, mx) ==
    {e \in s.starts : e <= mx + 1 /\ gpio_get(s, e - 1) /\ ~gpio_get(s, e)}

\* The k-th smallest element of a set of numbers.
Kth(S, k) == CHOOSE e \in S : Cardinality({x \in S : x < e}) = k - 1

\* The three intervals between the first four falling edges of s.
Intervals(s, mx) ==
    LET E == EdgeTimes(s, mx)
    IN  <<Kth(E, 2) - Kth(E, 1), Kth(E, 3) - Kth(E, 2), Kth(E, 4) - Kth(E, 3)>>

\* The outcome the specification gives for behaviour s: 0 is Failure.
ExpectedOutcome(s, mx) ==
    IF Cardinality(EdgeTimes(s, mx)) < 4 THEN 0
    ELSE LET iv == Intervals(s, mx) IN (iv[1] + iv[2] + iv[3]) \div 3

\* The iteration on which calibrate must stop for behaviour s.
ExpectedStop(s, mx) ==
    IF Cardinality(EdgeTimes(s, mx)) < 4 THEN mx + 1 ELSE Kth(EdgeTimes(s, mx), 4)

\* The value of a string of decimal digits.
RECURSIVE DecimalValue(_)
DecimalValue(s) ==
    IF s = <<>> THEN 0
    ELSE 10 * DecimalValue(SubSeq(s, 1, Len(s) - 1)) + DigitValue(s[Len(s)])

\* extractNumber as the specification states it, for a text of digits.
ExtractNumberSpec(s) ==
    IF s = <<>> \/ s[1] = "0" THEN 0 ELSE DecimalValue(s)

\* The line has the form "run N": a space at index 3, then only digits.
WellFormedRunN(l) ==
    /\ Len(l) >= 4
    /\ l[4] = " "
    /\ \A k \in 5..Len(l) : l[k] \in Digits

\* The eighths a line starting with "run" must run: 0 for an Invalid line.
ExpectedEighths(l) ==
    IF l = RunWord THEN 8
    ELSE IF WellFormedRunN(l) THEN ExtractNumberSpec(SubSeq(l, 5, Len(l)))
    ELSE 0

\* The count run_motor was called with by the command of `line`.
RunArg == IF line = RunWord THEN 8 ELSE num_out

(***************************************************************************)
(* C1: steps_per_rev always equals the average returned by the most recent *)
(* calibration that succeeded, or the default 4096 when none has succeeded *)
(* yet: status, run, invalid lines and failed calibrations do not change   *)
(* it.                                                                     *)
(***************************************************************************)
C1_StepsPerRevIsLastSuccess == steps_per_rev = lastSuccessAvg

\* A failed calibration after a successful one to 9: steps_per_rev is still 9.
C1_Witness ==
    /\ Done /\ line = CalibLine
    /\ avg = 0 /\ LastMsg(out) = Failed
    /\ steps_per_rev = 9

(***************************************************************************)
(* C2: steps_per_rev is strictly positive in every reachable state, so     *)
(* every call of run_motor is made with stepsPerRevolution > 0.            *)
(***************************************************************************)
C2_StepsPerRevPositive == steps_per_rev > 0

\* run_motor running after a successful and then a failed calibration.
C2_Witness ==
    /\ pc = "run"
    /\ avg = 0 /\ longCalibs > 0
    /\ lastSuccessAvg # DEFAULT_STEPS_PER_REV

(***************************************************************************)
(* C3: calibrate returns 0 (Failure) when the loop ends with fewer than 4  *)
(* falling edges seen, and otherwise the truncated average of the three    *)
(* intervals between the four edges.  An edge sampled on the iteration     *)
(* that passes the ceiling is still seen by the loop.                      *)
(***************************************************************************)
C3_CalibrateResult ==
    (Done /\ line = CalibLine) =>
        /\ avg = ExpectedOutcome(sensor, safe_max)
        /\ avg > 0 => revolution_steps = Intervals(sensor, safe_max)

\* Intervals 10, 10, 11 average to 10.
C3_Witness ==
    /\ Done /\ line = CalibLine
    /\ revolution_steps = <<10, 10, 11>>
    /\ avg = 10

(***************************************************************************)
(* C4: a calibration that ends in Failure leaves the three slots of        *)
(* revolution_steps at the values they had before the calib command.       *)
(***************************************************************************)
C4_FailureKeepsIntervals ==
    (Done /\ line = CalibLine /\ avg = 0) =>
        revolution_steps = entry.revolution_steps

(***************************************************************************)
(* C5 as claimed: the ceiling of every calib command is 5 times the        *)
(* steps_per_rev current when the command starts.                          *)
(***************************************************************************)
C5_CeilingFollowsStepsPerRev ==
    pc = "calib" => max = 5 * entry.steps_per_rev

(***************************************************************************)
(* C5 as amended: the ceiling of every calib command is the constant 20480 *)
(* (5 times the default 4096), whatever steps_per_rev is when the command  *)
(* starts.                                                                 *)
(***************************************************************************)
C5_CeilingIsConstant ==
    pc = "calib" => max = 5 * DEFAULT_STEPS_PER_REV

\* A calibration after one to 9 steps on beyond 5 * 9 half-steps.
C5_Witness ==
    /\ pc = "calib"
    /\ entry.steps_per_rev = 9
    /\ step > 5 * entry.steps_per_rev

(***************************************************************************)
(* C6: calibrate stops on the iteration that sees the 4th falling edge or  *)
(* on the one where the step counter first exceeds the ceiling, whichever  *)
(* comes first: never more than ceiling + 1 half-steps, none after the 4th *)
(* edge, and exactly ceiling + 1 when the sensor never transitions.        *)
(***************************************************************************)
C6_CalibrateStops ==
    /\ pc = "calib" =>
          /\ issued = step
          /\ step <= max + 1
          /\ count <= 4
          /\ continue_loop <=> (count < 4 /\ step <= max)
    /\ (Done /\ line = CalibLine) =>
          /\ issued = ExpectedStop(sensor, safe_max)
          /\ issued <= safe_max + 1

\* A sensor that never transitions: Failure after exactly 20481 half-steps.
C6_Witness ==
    /\ Done /\ line = CalibLine
    /\ sensor.starts = {}
    /\ issued = safe_max + 1
    /\ avg = 0 /\ out = <<Failed>>

(***************************************************************************)
(* C7: run_motor(count, steps_per_rev) issues exactly                      *)
(* count * floor(steps_per_rev / 8) half-steps.                            *)
(***************************************************************************)
C7_RunMotorSteps ==
    /\ pc = "run" =>
          /\ i_count = RunArg * (steps_per_rev \div 8)
          /\ issued = i
          /\ i <= i_count
    /\ (Done /\ HasRunPrefix(line)) =>
          issued = RunArg * (steps_per_rev \div 8)

\* run(8, 4096) has issued 4096 half-steps.
C7_Witness ==
    /\ Done /\ line = RunWord
    /\ steps_per_rev = 4096
    /\ issued = 4096

(***************************************************************************)
(* C8 as claimed: after a calib whose sensor gives 4 falling edges at      *)
(* fixed spacing S, steps_per_rev is S and completion is reported, and a   *)
(* following "run 8" issues exactly S half-steps, for every S.             *)
(***************************************************************************)
C8_RunEightIssuesSpacing ==
    \A S \in Spacings :
        sensor = FixedSpacing(3, S) =>
            /\ (Done /\ line = CalibLine) =>
                  steps_per_rev = S /\ LastMsg(out) = Completed
            /\ (Done /\ line = RunLine(<<" ", "8">>)) => issued = S

(***************************************************************************)
(* C8 as amended: after such a calib steps_per_rev is S and completion is  *)
(* reported; a following "run 8" issues 8 * floor(S / 8) half-steps, which *)
(* is S exactly when S is a multiple of 8.                                 *)
(***************************************************************************)
C8_RunEightIssuesWholeEighths ==
    \A S \in Spacings :
        sensor = FixedSpacing(3, S) =>
            /\ (Done /\ line = CalibLine) =>
                  steps_per_rev = S /\ LastMsg(out) = Completed
            /\ (Done /\ line = RunLine(<<" ", "8">>)) =>
                  /\ steps_per_rev = S
                  /\ issued = 8 * (S \div 8)
                  /\ (issued = S) <=> (S % 8 = 0)

\* Spacing 9: "run 8" has issued 8 half-steps, not 9.
C8_Witness ==
    /\ Done /\ line = RunLine(<<" ", "8">>)
    /\ sensor = FixedSpacing(3, 9)
    /\ steps_per_rev = 9
    /\ issued = 8

(***************************************************************************)
(* C9: get_nums_from_a_string gives 0 for the empty text and for a text    *)
(* starting with '0', and the decimal value otherwise; a run request whose *)
(* number is 0 writes no coil and prints nothing.                          *)
(***************************************************************************)
C9_ZeroRunIsNoOp ==
    (HasRunPrefix(line) /\ validate_run_input(line)) =>
        /\ num_out = ExtractNumberSpec(StrFrom(line, 4))
        /\ num_out = 0 => (Done /\ issued = 0 /\ out = <<>>)

\* "run 012" has been dispatched: no half-step, no output.
C9_Witness ==
    /\ Done /\ line = RunLine(<<" ", "0", "1", "2">>)
    /\ num_out = 0 /\ issued = 0 /\ out = <<>>

(***************************************************************************)
(* C10: of the lines starting with "run", "run" alone runs 8 eighths, a    *)
(* line with a space at index 3 followed only by digits runs the eighths   *)
(* its number gives, and every other line causes no motion.                *)
(***************************************************************************)
C10_RunLineEighths ==
    HasRunPrefix(line) =>
        /\ pc # "calib"
        /\ pc = "run" => i_count = ExpectedEighths(line) * (steps_per_rev \div 8)
        /\ Done => issued = ExpectedEighths(line) * (steps_per_rev \div 8)
        /\ out = <<>>

\* "run 12" at the default 4096 has issued 12 * 512 half-steps.
C10_Witness ==
    /\ Done /\ line = RunLine(<<" ", "1", "2">>)
    /\ steps_per_rev = DEFAULT_STEPS_PER_REV
    /\ issued = 6144

\* A line the specification calls Invalid: not "status", not "calib", not
\* "run" and not "run N" with a text of digits.
InvalidLine(l) ==
    /\ l # StatusLine /\ l # CalibLine /\ l # RunWord
    /\ ~(Len(l) >= 3 /\ SubSeq(l, 1, 3) = RunWord /\ WellFormedRunN(l))

(***************************************************************************)
(* C11: only the exact lines "status" and "calib" select Status and        *)
(* Calibrate; a status command and every Invalid line leave steps_per_rev, *)
(* the last calibration result, the recorded intervals and the coil        *)
(* outputs unchanged, and an Invalid line produces no output.              *)
(***************************************************************************)
C11_OnlyExactWordsSelect ==
    [][pc = "idle" =>
          /\ (pc' = "calib") <=> (line' = CalibLine)
          /\ (out' # <<>>) <=> (line' = StatusLine)
          /\ (line' = StatusLine \/ InvalidLine(line')) =>
                /\ pc' = "idle"
                /\ steps_per_rev' = steps_per_rev
                /\ avg' = avg
                /\ revolution_steps' = revolution_steps
                /\ coils' = coils
          /\ InvalidLine(line') => out' = <<>>]_vars

\* "status " with a trailing blank was read after a calibration and a motion:
\* nothing was printed.
C11_Witness ==
    /\ Done
    /\ line = StatusLine \o <<" ">>
    /\ out = <<>>
    /\ avg > 0
    /\ coils # <<0, 0, 0, 0>>

(***************************************************************************)
(* C12: step_motor(step) writes row (step mod 8) of the half-step table to *)
(* the four coil pins in the order A, B, C, D; for every step counter      *)
(* value calibrate or run_motor reaches, the phase is in 0..7 and is the   *)
(* same for n and n + 8.                                                   *)
(***************************************************************************)
C12_StepMotorWritesRow ==
    /\ (pc = "calib" /\ step > 0) =>
          \A k \in 1..INS_SIZE : coils[k] = half_step[((step - 1) % 8) + 1][k]
    /\ (pc = "run" /\ i > 0) =>
          \A k \in 1..INS_SIZE : coils[k] = half_step[((i - 1) % 8) + 1][k]
    /\ \A n \in {step, i} :
          /\ BitAnd7(n) \in 0..7
          /\ BitAnd7(n) = BitAnd7(n + 8)
          /\ step_motor(n) = step_motor(n + 8)

\* The ninth half-step of a calibration has driven the first row again.
C12_Witness ==
    /\ pc = "calib"
    /\ step = 9
    /\ coils = half_step[1]

(***************************************************************************)
(* C13: every dispatched command runs to completion and the loop then      *)
(* waits for the next line: a calib or run command issues only finitely    *)
(* many half-steps (at most max + 1, resp. i_count), it returns to the     *)
(* waiting loop, the waiting loop can always read another line, and no     *)
(* line is read while a motion command is still stepping.                  *)
(***************************************************************************)
C13_CommandsComplete ==
    /\ [](/\ pc \in {"idle", "calib", "run"}
          /\ pc = "calib" => issued = step /\ step <= max + 1
          /\ pc = "run" => issued = i /\ (i <= i_count \/ i = 0)
          /\ Done => ENABLED Status)
    /\ [][pc # "idle" => line' = line /\ entry' = entry /\ issued' >= issued]_vars
    /\ (pc # "idle") ~> (pc = "idle")

\* A calibration that found no edge has returned after max + 1 half-steps.
C13_Witness ==
    /\ Done
    /\ line = CalibLine
    /\ issued = safe_max + 1
    /\ LastMsg(out) = Failed

(***************************************************************************)
(* C14 as claimed: during calibration the interval counter starts on the   *)
(* iteration after the first falling edge, and the iteration on which a    *)
(* falling edge is detected is counted into neither the interval that edge *)
(* closes nor the one it opens: a recorded interval is the number of       *)
(* iterations strictly between its two edges.                              *)
(***************************************************************************)
C14_EdgeIterationInNoInterval ==
    pc = "calib" =>
       LET E == EdgeTimes(sensor, max)
       IN  /\ count = 0 => edge_step = 0
           /\ \A k \in 1..(count - 1) :
                 revolution_steps[k] = Kth(E, k + 1) - Kth(E, k) - 1

(***************************************************************************)
(* C14 amended: the interval counter starts on the iteration after the     *)
(* first falling edge; the iteration of a later falling edge is counted    *)
(* into the interval that edge closes and not into the one it opens, so    *)
(* the counter is the number of half-steps since the last edge and a       *)
(* recorded interval is the number of half-steps from one edge to the next.*)
(***************************************************************************)
C14_ClosingEdgeIterationCounted ==
    pc = "calib" =>
       LET E == EdgeTimes(sensor, max)
       IN  /\ count = 0 => edge_step = 0
           /\ count >= 1 => edge_step = step - Kth(E, count)
           /\ \A k \in 1..(count - 1) :
                 revolution_steps[k] = Kth(E, k + 1) - Kth(E, k)

\* Edges on iterations 3 and 11: the second edge has just stored 8 and reset
\* the counter.
C14_Witness ==
    /\ pc = "calib"
    /\ sensor = FixedSpacing(3, 8)
    /\ step = 11
    /\ count = 2
    /\ edge_step = 0
    /\ revolution_steps[1] = 8

\* The falling edges a calibration has reported on the output.
EdgesReported(o) ==
    Cardinality({k \in DOMAIN o : o[k].text \in {"First low edge found", "round steps"}})

(***************************************************************************)
(* C15: whenever calibrate has observed 4 falling edges the outcome is     *)
(* Success: every recorded interval is at least 2 half-steps, so the       *)
(* returned average is strictly positive, main reports "Calibration        *)
(* completed" and updates steps_per_rev; a calibration with 4 edges is     *)
(* never reported as failed.                                               *)
(***************************************************************************)
C15_FourEdgesSucceed ==
    /\ pc = "calib" => count = EdgesReported(out)
    /\ (pc = "calib" /\ count >= 4) =>
          /\ \A k \in 1..3 : revolution_steps[k] >= 2
          /\ CalibResult(count, revolution_steps) >= 2
    /\ (Done /\ line = CalibLine /\ EdgesReported(out) >= 4) =>
          /\ LastMsg(out) = Completed
          /\ avg >= 2
          /\ steps_per_rev = avg
    /\ (Done /\ line = CalibLine /\ LastMsg(out) = Failed) => EdgesReported(out) < 4

\* Four edges as close as edges can be, two half-steps apart: the calibration
\* succeeded with 2.
C15_Witness ==
    /\ Done
    /\ line = CalibLine
    /\ EdgesReported(out) = 4
    /\ LastMsg(out) = Completed
    /\ revolution_steps = <<2, 2, 2>>
    /\ steps_per_rev = 2

(***************************************************************************)
(* C16: the falling-edge count increases, by one, exactly on the           *)
(* iterations where the previous sample was clear (true) and the current   *)
(* sample is blocked (false); rising edges and unchanged samples never     *)
(* increase it, and the previous sample is replaced by the current one at  *)
(* the end of every iteration, so a sensor that starts blocked yields no   *)
(* edge until it has been sampled clear once.                              *)
(***************************************************************************)
C16_CountsFallingEdgesOnly ==
    /\ [](pc = "calib" =>
            /\ prev_state = gpio_get(sensor, step)
            /\ (count > 0 => \E k \in 0..step : gpio_get(sensor, k)))
    /\ [][(pc = "calib" /\ step' = step + 1) =>
            LET clear == gpio_get(sensor, step)
                blocked == ~gpio_get(sensor, step + 1)
            IN  /\ count' = IF clear /\ blocked THEN count + 1 ELSE count
                /\ prev_state' = gpio_get(sensor, step + 1)]_vars

\* The sensor started blocked and has risen to clear on iteration 3: four
\* iterations in, no edge has been counted.
C16_Witness ==
    /\ pc = "calib"
    /\ ~gpio_get(sensor, 0)
    /\ step = 4
    /\ prev_state
    /\ count = 0

(***************************************************************************)
(* C17: status reports the last-known calibration: once some calibration   *)
(* has succeeded, every later status command reports "Calibrated: yes"     *)
(* with the current steps_per_rev, also when a later calib command has     *)
(* failed; "Not available" is reported only while no calibration has ever  *)
(* succeeded.                                                              *)
(***************************************************************************)
C17_StatusReportsLastKnown ==
    (Done /\ line = StatusLine) =>
       out = IF succeeded
             THEN <<Msg("Calibrated: yes", 0, 0), Msg("Steps per revolution", steps_per_rev, 0)>>
             ELSE <<Msg("Calibrated: no", 0, 0), Msg("Not available", 0, 0)>>

\* The row of the half-step table the pins show.
RowOf(c) == CHOOSE r \in 0..7 : half_step[r + 1] = c

(***************************************************************************)
(* C18: within each calib and each run command the k-th half-step (k from  *)
(* 0) drives table row k mod 8, so the step counter restarts at 0 for      *)
(* every command: the first half-step of a command drives row 0 whatever   *)
(* row the previous command stopped on, and within a command consecutive   *)
(* half-steps advance by exactly one row modulo 8.                         *)
(***************************************************************************)
C18_RowsRestartPerCommand ==
    /\ [](issued > 0 => coils = half_step[((issued - 1) % 8) + 1])
    /\ [][issued' = issued + 1 =>
            /\ coils' = half_step[(issued % 8) + 1]
            /\ issued = 0 => RowOf(coils') = 0
            /\ issued > 0 => RowOf(coils') = (RowOf(coils) + 1) % 8]_vars

\* After a calibration to 9, which stops on row 5 after 30 half-steps, a run
\* command has issued its first half-step: the pins show row 0.
C18_Witness ==
    /\ pc = "run"
    /\ steps_per_rev = 9
    /\ issued = 1
    /\ coils = half_step[1]
    /\ sensor = FixedSpacing(3, 9)

(***************************************************************************)
(* C19: for every run argument N the parser accepts (a text of digits      *)
(* without a leading zero), the number of half-steps issued equals         *)
(* N * floor(steps_per_rev / 8): neither the conversion of the digits to   *)
(* an int nor the multiplication overflows, so a large N is never turned   *)
(* into a shorter, zero or negative step count.                            *)
(***************************************************************************)
C19_LargeRunIssuesProduct ==
    (Done /\ HasRunPrefix(line) /\ WellFormedRunN(line) /\ ExpectedEighths(line) > 0) =>
       LET n == ExpectedEighths(line)
           e == steps_per_rev \div 8
       IN  /\ num_out = n
           /\ issued >= 0
           /\ e = 0 => issued = 0
           /\ e > 0 => (issued % e = 0 /\ issued \div e = n)

AllLow == <<0, 0, 0, 0>>

TableRows == {half_step[r] : r \in 1..8}

\* One coil, or two coils next to each other on the ring A, B, C, D, A.
OneOrTwoAdjacent(c) ==
    LET on == {k \in 1..INS_SIZE : c[k] = 1}
    IN  \/ Cardinality(on) = 1
        \/ /\ Cardinality(on) = 2
           /\ \E a, b \in on : (b - a) % INS_SIZE = 1

(***************************************************************************)
(* C20 as claimed: in every reachable state the four coil outputs are      *)
(* either all low or equal to one row of the half-step table, i.e. one     *)
(* coil or two adjacent coils energized and never three, four or two       *)
(* opposite coils; after a motion command that issued a half-step the      *)
(* outputs stay at the last row driven while the loop waits for input.     *)
(***************************************************************************)
C20_CoilsAlwaysTableRow ==
    /\ coils \in {AllLow} \cup TableRows
    /\ coils # AllLow => OneOrTwoAdjacent(coils)
    /\ (Done /\ issued > 0) => coils = half_step[((issued - 1) % 8) + 1]

(***************************************************************************)
(* C20 amended: between half-steps, and throughout a command once its      *)
(* first half-step is complete, the coil outputs are all low (only before  *)
(* the first half-step ever issued) or equal to one row of the table, one  *)
(* coil or two adjacent coils energized; the outputs never return to all   *)
(* low, and after a motion command that issued a half-step they stay at    *)
(* the last row driven while the loop waits.  Only while step_motor writes *)
(* the four pins of the first half-step of a command, which restarts at    *)
(* row 0, can the outputs pass through other patterns.                     *)
(***************************************************************************)
C20_TableRowExceptFirstHalfStep ==
    /\ []((pin \in {0, INS_SIZE} \/ issued > 0) =>
             /\ coils \in {AllLow} \cup TableRows
             /\ coils # AllLow => OneOrTwoAdjacent(coils))
    /\ [](coils = AllLow => (~succeeded /\ issued = 0 /\ steps_per_rev = DEFAULT_STEPS_PER_REV))
    /\ []((Done /\ issued > 0) => coils = half_step[((issued - 1) % 8) + 1])
    /\ []((pin \notin {0, INS_SIZE} /\ coils \notin TableRows) => issued = 0)
    /\ [][coils # AllLow => coils' # AllLow]_vars
    /\ [][pc = "idle" => coils' = coils]_vars

\* The first pin of a command's first half-step has been written while the
\* pins showed row 3: coils A, B and C are energized together.
C20_Witness ==
    /\ pc \in {"calib", "run"}
    /\ issued = 0
    /\ pin = 1
    /\ coils = <<1, 1, 1, 0>>

TypeOK ==
    /\ pc \in {"idle", "calib", "run"}
    /\ steps_per_rev \in Int /\ avg \in Int
    /\ coils \in [1..INS_SIZE -> {0, 1}]
    /\ pin \in 0..INS_SIZE
    /\ succeeded \in BOOLEAN

====
